---- MODULE Spec2Model ----
(***************************************************************************)
(* Model of src/ford_fulkerson.py: Graph (the sample network and its       *)
(* source/sink defaults), FordFulkerson.path_finder (the recursive random  *)
(* walk that collects source-to-sink paths in self.visited) and            *)
(* FordFulkerson.flow_network (the per-path bottleneck and flow update).   *)
(*                                                                         *)
(* Node labels are one-character strings, as in the source, so a Python    *)
(* path string is modelled as the sequence of its characters.              *)
(***************************************************************************)
EXTENDS Integers, Sequences, FiniteSets, TLC

(* ------------------------------ bounds --------------------------------- *)

\* Depth of path_finder recursion at which the interpreter raises
\* RecursionError (CPython: 1000 frames), scaled down.
RecursionLimit == 8

\* Number of labels of self.path the model keeps during a walk; a walk that
\* goes on (only possible through a cycle) is followed without them.
MaxPathLen == 5

(* ------------------------- program constants --------------------------- *)

\* self.retry = 30; never decremented by path_finder.
Retry == 30

\* The literal 7 in the loop condition len(self.visited) != 7.
PathCount == 7

\* Python's None, and the value of total before flow_network has printed.
None == "None"
NoOutput == -1

(* ------------------------------ graphs --------------------------------- *)

\* The edge list of Graph.add_sample_nodes_edges.
SampleEdges ==
    << <<"S", "A", 9>>, <<"S", "B", 9>>, <<"A", "B", 10>>,
       <<"A", "C", 8>>, <<"B", "C", 1>>, <<"B", "D", 3>>,
       <<"C", "T", 10>>, <<"D", "C", 8>>, <<"D", "T", 7>> >>

\* main(): Graph() with the sample edges and the default endpoints.
SampleConfig == [edgeList |-> SampleEdges, source |-> None, sink |-> None]

\* Other networks a caller can build with the same classes: each is a list
\* of (from, to, capacity) passed to add_edges_from, plus the source and sink
\* arguments of Graph(...).
SmallConfigs ==
    { \* one edge: the only path is ST
      [edgeList |-> << <<"S", "T", 2>> >>, source |-> None, sink |-> None],
      \* two disjoint paths and a dead end D
      [edgeList |-> << <<"S", "A", 2>>, <<"A", "T", 1>>, <<"S", "B", 2>>,
                       <<"B", "T", 1>>, <<"S", "D", 1>> >>,
       source |-> None, sink |-> None],
      \* the same with equal capacities
      [edgeList |-> << <<"S", "A", 1>>, <<"A", "T", 1>>, <<"S", "B", 1>>,
                       <<"B", "T", 1>>, <<"S", "D", 1>> >>,
       source |-> None, sink |-> None],
      \* sink unreachable, the source leads into a dead end
      [edgeList |-> << <<"S", "A", 1>>, <<"B", "T", 1>> >>,
       source |-> None, sink |-> None],
      \* sink unreachable, the source leads into a cycle
      [edgeList |-> << <<"S", "A", 1>>, <<"A", "S", 1>>, <<"B", "T", 1>> >>,
       source |-> None, sink |-> None],
      \* sink unreachable, the source has no outgoing edge
      [edgeList |-> << <<"A", "S", 1>>, <<"A", "T", 1>> >>,
       source |-> None, sink |-> None],
      \* a cycle on the way to the sink and a dead end
      [edgeList |-> << <<"S", "A", 3>>, <<"A", "B", 2>>, <<"B", "A", 2>>,
                       <<"A", "T", 1>>, <<"B", "D", 1>> >>,
       source |-> None, sink |-> None],
      \* antiparallel edges, the reverse one inserted first
      [edgeList |-> << <<"A", "S", 1>>, <<"S", "A", 3>>, <<"A", "T", 2>>,
                       <<"S", "D", 1>> >>,
       source |-> None, sink |-> None],
      \* a zero-capacity edge on the path
      [edgeList |-> << <<"S", "A", 2>>, <<"A", "T", 0>>, <<"S", "D", 1>> >>,
       source |-> None, sink |-> None],
      \* two paths sharing the only edge that leaves the source
      [edgeList |-> << <<"S", "A", 3>>, <<"A", "B", 2>>, <<"B", "T", 2>>,
                       <<"A", "C", 3>>, <<"C", "T", 3>>, <<"C", "D", 1>> >>,
       source |-> None, sink |-> None],
      \* source equal to sink
      [edgeList |-> << <<"S", "A", 2>>, <<"A", "T", 1>> >>,
       source |-> "T", sink |-> "T"],
      \* source that is no node of the graph
      [edgeList |-> << <<"S", "A", 2>>, <<"A", "T", 1>> >>,
       source |-> "X", sink |-> None],
      \* sink that is no node of the graph
      [edgeList |-> << <<"S", "A", 2>>, <<"A", "T", 1>> >>,
       source |-> None, sink |-> "X"],
      \* empty source label
      [edgeList |-> << <<"S", "A", 2>>, <<"A", "T", 1>> >>,
       source |-> "", sink |-> None],
      \* empty sink label
      [edgeList |-> << <<"S", "A", 2>>, <<"A", "T", 1>> >>,
       source |-> None, sink |-> ""] }

Configs == {SampleConfig} \cup SmallConfigs

(* --------------------------- Graph helpers ----------------------------- *)

\* Graph.__init__: self.source = 'S' if source is None else source.
GraphSource(c) == IF c.source = None THEN "S" ELSE c.source

\* Graph.__init__: self.sink = 'T' if sink is None else sink.
GraphSink(c) == IF c.sink = None THEN "T" ELSE c.sink

RECURSIVE NodeOrderFrom(_, _, _)
NodeOrderFrom(el, i, acc) ==
    IF i > Len(el) THEN acc
    ELSE LET seen(n) == \E k \in 1..Len(acc) : acc[k] = n
             a1 == IF seen(el[i][1]) THEN acc ELSE Append(acc, el[i][1])
             a2 == IF \E k \in 1..Len(a1) : a1[k] = el[i][2]
                   THEN a1 ELSE Append(a1, el[i][2])
         IN  NodeOrderFrom(el, i + 1, a2)

\* DiGraph.add_edges_from: nodes are created in order of first appearance.
NodeOrder(el) == NodeOrderFrom(el, 1, <<>>)

RECURSIVE EdgesViewFrom(_, _, _)
EdgesViewFrom(el, ns, i) ==
    IF i > Len(ns) THEN <<>>
    ELSE SelectSeq(el, LAMBDA e : e[1] = ns[i]) \o EdgesViewFrom(el, ns, i + 1)

\* graph.edges iterates node by node (in node order), each node's outgoing
\* edges in insertion order; every edge carries capacity, flow and residual.
EdgesView(el) ==
    LET ev == EdgesViewFrom(el, NodeOrder(el), 1)
    IN  [k \in 1..Len(ev) |->
            [u |-> ev[k][1], v |-> ev[k][2], capacity |-> ev[k][3],
             flow |-> 0, residual |-> ev[k][3]]]

(* ------------------------------- state --------------------------------- *)

VARIABLES
    cfg,        \* the arguments the graph was built from
    edges,      \* graph.edges(data=True): sequence of edge records
    source,     \* FordFulkerson.source
    sink,       \* FordFulkerson.sink
    visited,    \* FordFulkerson.visited
    path,       \* FordFulkerson.path (its first labels when overlong)
    overlong,   \* self.path has more labels than path keeps
    cur,        \* local `source` of the running path_finder frame
    depth,      \* number of path_finder frames on the call stack
    attempts,   \* calls of choice() made by the search, counted up to Retry + 1
    pc,         \* position of the program
    idx,        \* flow_network: index of the next path of `visit`
    maxflow,    \* flow_network: local list maxflow
    underscore, \* flow_network: whether local `_` has been assigned
    total,      \* the value printed by print(sum(maxflow))
    run,        \* how many times flow_network has been called
    first,      \* edges and total at the end of the first flow_network call
    earlier     \* edges and total of an earlier complete computation

vars == <<cfg, edges, source, sink, visited, path, overlong, cur, depth,
          attempts, pc, idx, maxflow, underscore, total, run, first, earlier>>

\* Value of first and earlier while there is nothing to record.
NoRun == [edges |-> <<>>, total |-> NoOutput]

(* ------------------------- pure parts of the code ---------------------- *)

\* self.path in self.visited, with the test dropped: never found.
InVisitedNever(p, vs) == FALSE

\* self.path not in self.visited
InVisited(p, vs) == \E i \in 1..Len(vs) : vs[i] = p

\* possible = [edge for edge in self.edges if source in edge[0]]
\* (for one-character labels the substring test is equality)
Possible(es, n) == {k \in 1..Len(es) : es[k].u = n}

RECURSIVE PairsFrom(_, _)
PairsFrom(p, i) ==
    IF p[i] = p[Len(p)] THEN <<>>
    ELSE << <<p[i], p[i + 1]>> >> \o PairsFrom(p, i + 1)

\* visit[path]: the pairs (path[i], path[i+1]) up to the first position
\* whose label equals the last label of the path.
Pairs(p) == PairsFrom(p, 1)

\* temp = [edge for edge in self.edges(data=True)
\*         if node[0] in edge and node[1] in edge]
\* as the increasing list of positions in graph.edges.
Temp(es, pr) ==
    {k \in 1..Len(es) : /\ pr[1] \in {es[k].u, es[k].v}
                        /\ pr[2] \in {es[k].u, es[k].v}}

\* temp[0]: the first matching edge; 0 stands for the IndexError of an
\* empty temp.
TempFirst(es, pr) ==
    IF Temp(es, pr) = {} THEN 0
    ELSE CHOOSE k \in Temp(es, pr) : \A j \in Temp(es, pr) : k <= j

\* r_edges, as positions of temp[0] for every pair of the path.
REdges(es, p) ==
    LET ps == Pairs(p) IN [i \in 1..Len(ps) |-> TempFirst(es, ps[i])]

RECURSIVE BottleneckFrom(_, _, _, _, _)
BottleneckFrom(es, r, i, rc, us) ==
    IF i > Len(r) THEN [rc |-> rc, us |-> us]
    ELSE LET c == es[r[i]].capacity IN
         IF rc = 0 THEN BottleneckFrom(es, r, i + 1, c, us)
         ELSE IF rc > c THEN BottleneckFrom(es, r, i + 1, c, TRUE)
         ELSE BottleneckFrom(es, r, i + 1, rc, us)

\* The loop over visit[path]: residual_capacity starts at 0, takes the
\* capacity of temp[0] when it is 0 or larger than that capacity; `_` is
\* assigned only in the second case.
Bottleneck(es, r, us) == BottleneckFrom(es, r, 1, 0, us)

\* residual_capacity in maxflow, with the test dropped: never found.
InMaxflowNever(rc, mf) == FALSE

\* residual_capacity in maxflow
InMaxflow(rc, mf) == \E i \in 1..Len(mf) : mf[i] = rc

RECURSIVE ApplyFrom(_, _, _, _)
ApplyFrom(es, r, i, rc) ==
    IF i > Len(r) THEN es
    ELSE LET k == r[i] IN
         IF es[k].flow # es[k].capacity
         THEN IF es[k].flow + rc > es[k].capacity
              THEN es
              ELSE ApplyFrom([es EXCEPT ![k].flow = @ + rc,
                                        ![k].residual = @ - rc],
                             r, i + 1, rc)
         ELSE es

RECURSIVE ApplyUncheckedFrom(_, _, _, _)
ApplyUncheckedFrom(es, r, i, rc) ==
    IF i > Len(r) THEN es
    ELSE LET k == r[i] IN
         IF es[k].flow # es[k].capacity
         THEN ApplyUncheckedFrom([es EXCEPT ![k].flow = @ + rc,
                                            ![k].residual = @ - rc],
                                 r, i + 1, rc)
         ELSE es

\* The update loop without its overflow test
\* (flow + residual_capacity > capacity).
ApplyPathUnchecked(es, r, rc) == ApplyUncheckedFrom(es, r, 1, rc)

RECURSIVE ApplyFlowOnlyFrom(_, _, _, _)
ApplyFlowOnlyFrom(es, r, i, rc) ==
    IF i > Len(r) THEN es
    ELSE LET k == r[i] IN
         IF es[k].flow # es[k].capacity
         THEN IF es[k].flow + rc > es[k].capacity
              THEN es
              ELSE ApplyFlowOnlyFrom([es EXCEPT ![k].flow = @ + rc],
                                     r, i + 1, rc)
         ELSE es

\* The update loop without the line edge['residual'] -= residual_capacity.
ApplyPathFlowOnly(es, r, rc) == ApplyFlowOnlyFrom(es, r, 1, rc)

\* for edge in r_edges: add residual_capacity to the flow of the edge and
\* subtract it from its residual; stop at the first edge that is full or
\* would overflow.
ApplyPath(es, r, rc) == ApplyFrom(es, r, 1, rc)

RECURSIVE SumFrom(_, _)
SumFrom(s, i) == IF i > Len(s) THEN 0 ELSE s[i] + SumFrom(s, i + 1)

\* sum(maxflow)
Sum(s) == SumFrom(s, 1)

(* ------------------------------ Init ----------------------------------- *)

\* State after Graph(...), add_edges_from(...) and FordFulkerson(graph),
\* at the call ford.path_finder(ford.source, ford.sink) of main().
InitOf(c) ==
    /\ cfg = c
    /\ edges = EdgesView(c.edgeList)
    /\ source = GraphSource(c)
    /\ sink = GraphSink(c)
    /\ visited = <<>>
    /\ path = <<>>
    /\ overlong = FALSE
    /\ cur = GraphSource(c)
    /\ depth = 1
    /\ attempts = 0
    /\ pc = "call"
    /\ idx = 0
    /\ maxflow = <<>>
    /\ underscore = FALSE
    /\ total = NoOutput
    /\ run = 0
    /\ first = NoRun
    /\ earlier = NoRun

Init == \E c \in Configs : InitOf(c)

InitSmall == \E c \in SmallConfigs : InitOf(c)

RECURSIVE ReachFrom(_, _)
\* The nodes reachable from the set X along edges of the graph.
ReachFrom(es, X) ==
    LET Y == X \cup {es[k].v : k \in {j \in 1..Len(es) : es[j].u \in X}}
    IN  IF Y = X THEN X ELSE ReachFrom(es, Y)

\* The small graphs in which no cycle reachable from the source leads on to
\* the sink: on these the model follows every walk to its end.
CycleFreeConfigs ==
    {c \in SmallConfigs :
        LET es == EdgesView(c.edgeList)
            next(n) == {es[k].v : k \in {j \in 1..Len(es) : es[j].u = n}}
        IN  \A n \in ReachFrom(es, {GraphSource(c)}) :
                n \in ReachFrom(es, next(n)) =>
                    GraphSink(c) \notin ReachFrom(es, {n})}

InitCycleFree == \E c \in CycleFreeConfigs : InitOf(c)

(* --------------------------- path_finder ------------------------------- *)

\* while self.retry > 0 and source != sink and len(self.visited) != 7
LoopGuard == Retry > 0 /\ cur # sink /\ Len(visited) # PathCount

flowVars == <<idx, maxflow, underscore, total, run, first>>

\* test = choice(possible): one more edge selection attempted.
Attempt == attempts' = IF attempts > Retry THEN attempts ELSE attempts + 1

\* Entry of path_finder: exit() when source or sink is empty, otherwise
\* self.path += source.
Enter ==
    /\ pc = "call"
    /\ IF cur = "" \/ cur = None \/ sink = "" \/ sink = None
       THEN pc' = "exit" /\ path' = path
       ELSE pc' = "loop" /\ path' = Append(path, cur)
    /\ UNCHANGED <<cfg, edges, source, sink, visited, overlong, cur, depth,
                   attempts, earlier>>
    /\ UNCHANGED flowVars

\* One loop iteration whose chosen edge does not lead to the sink:
\* self.path += source at the end of the iteration.
Walk ==
    /\ pc = "loop"
    /\ LoopGuard
    /\ \E k \in Possible(edges, cur) :
          /\ edges[k].v # sink
          /\ cur' = edges[k].v
          /\ IF ~overlong /\ Len(path) < MaxPathLen
             THEN path' = Append(path, edges[k].v) /\ overlong' = FALSE
             ELSE path' = path /\ overlong' = TRUE
    /\ Attempt
    /\ UNCHANGED <<cfg, edges, source, sink, visited, depth, pc, earlier>>
    /\ UNCHANGED flowVars

\* One loop iteration whose chosen edge reaches the sink: the path is
\* recorded when new, self.path is reset and path_finder calls itself.
Arrive ==
    /\ pc = "loop"
    /\ LoopGuard
    /\ ~overlong
    /\ \E k \in Possible(edges, cur) : edges[k].v = sink
    /\ LET found == Append(path, sink) IN
         visited' = IF InVisited(found, visited) THEN visited
                    ELSE Append(visited, found)
    /\ path' = <<>>
    /\ IF depth + 1 > RecursionLimit
       THEN pc' = "crashed" /\ depth' = depth /\ cur' = sink
       ELSE pc' = "call" /\ depth' = depth + 1 /\ cur' = source
    /\ Attempt
    /\ UNCHANGED <<cfg, edges, source, sink, overlong, earlier>>
    /\ UNCHANGED flowVars

\* choice([]) raises IndexError: break.
DeadEnd ==
    /\ pc = "loop"
    /\ LoopGuard
    /\ Possible(edges, cur) = {}
    /\ pc' = "ret"
    /\ Attempt
    /\ UNCHANGED <<cfg, edges, source, sink, visited, path, overlong, cur,
                   depth, earlier>>
    /\ UNCHANGED flowVars

\* The loop condition is false.
LoopExit ==
    /\ pc = "loop"
    /\ ~LoopGuard
    /\ pc' = "ret"
    /\ UNCHANGED <<cfg, edges, source, sink, visited, path, overlong, cur,
                   depth, attempts, earlier>>
    /\ UNCHANGED flowVars

\* A recursive call returns: the calling frame, whose local source is the
\* sink, executes self.path += source and tests its loop condition again.
Return ==
    /\ pc = "ret"
    /\ depth > 1
    /\ depth' = depth - 1
    /\ cur' = sink
    /\ path' = IF overlong THEN path ELSE Append(path, sink)
    /\ pc' = "loop"
    /\ UNCHANGED <<cfg, edges, source, sink, visited, overlong, attempts,
                   earlier>>
    /\ UNCHANGED flowVars

(* --------------------------- flow_network ------------------------------ *)

searchVars == <<cfg, source, sink, visited, path, overlong, cur, depth,
                attempts, earlier>>

\* main(): path_finder has returned, flow_network starts with empty locals.
FlowStart ==
    /\ pc = "ret"
    /\ depth = 1
    /\ pc' = "flow"
    /\ idx' = 1
    /\ maxflow' = <<>>
    /\ underscore' = FALSE
    /\ run' = run + 1
    /\ UNCHANGED <<edges, total, first>>
    /\ UNCHANGED searchVars

\* visit is a dict keyed by the paths of visited, which holds no duplicate;
\* it is iterated in insertion order, the order of visited.
\*
\* One iteration of `for path in visit` whose residual_capacity is not yet
\* in maxflow: it is appended and the edges of the path are updated.
FlowAugment ==
    /\ pc = "flow"
    /\ idx <= Len(visited)
    /\ LET r == REdges(edges, visited[idx]) IN
         /\ \A i \in 1..Len(r) : r[i] # 0
         /\ LET b == Bottleneck(edges, r, underscore) IN
              /\ ~InMaxflow(b.rc, maxflow)
              /\ maxflow' = Append(maxflow, b.rc)
              /\ underscore' = b.us
              /\ edges' = ApplyPath(edges, r, b.rc)
    /\ idx' = idx + 1
    /\ UNCHANGED <<pc, total, run, first>>
    /\ UNCHANGED searchVars

\* One iteration whose residual_capacity is already in maxflow: the path is
\* reported FULL and skipped.
FlowSkip ==
    /\ pc = "flow"
    /\ idx <= Len(visited)
    /\ LET r == REdges(edges, visited[idx]) IN
         /\ \A i \in 1..Len(r) : r[i] # 0
         /\ LET b == Bottleneck(edges, r, underscore) IN
              /\ InMaxflow(b.rc, maxflow)
              /\ b.us
              /\ underscore' = b.us
    /\ idx' = idx + 1
    /\ UNCHANGED <<edges, pc, maxflow, total, run, first>>
    /\ UNCHANGED searchVars

\* One iteration that raises: temp[0] of an empty temp (IndexError), or the
\* FULL message reading `_` before any assignment (UnboundLocalError).
FlowCrash ==
    /\ pc = "flow"
    /\ idx <= Len(visited)
    /\ LET r == REdges(edges, visited[idx]) IN
         \/ \E i \in 1..Len(r) : r[i] = 0
         \/ /\ \A i \in 1..Len(r) : r[i] # 0
            /\ LET b == Bottleneck(edges, r, underscore) IN
                 InMaxflow(b.rc, maxflow) /\ ~b.us
    /\ pc' = "crashed"
    /\ UNCHANGED <<edges, idx, maxflow, underscore, total, run, first>>
    /\ UNCHANGED searchVars

\* End of the loop: print(sum(maxflow)).
FlowEnd ==
    /\ pc = "flow"
    /\ idx > Len(visited)
    /\ total' = Sum(maxflow)
    /\ pc' = "done"
    /\ first' = IF run = 1 THEN [edges |-> edges, total |-> Sum(maxflow)]
                ELSE first
    /\ UNCHANGED <<edges, idx, maxflow, underscore, run>>
    /\ UNCHANGED searchVars

\* flow_network is called a second time on the same object.
Rerun ==
    /\ pc = "done"
    /\ run = 1
    /\ pc' = "flow"
    /\ idx' = 1
    /\ maxflow' = <<>>
    /\ underscore' = FALSE
    /\ run' = 2
    /\ UNCHANGED <<edges, total, first>>
    /\ UNCHANGED searchVars

\* A second complete computation on an identically built graph: the result
\* of the first is kept in earlier, everything else is built anew.
Restart ==
    /\ pc = "done"
    /\ run = 1
    /\ earlier = NoRun
    /\ earlier' = [edges |-> edges, total |-> total]
    /\ cfg' = cfg
    /\ edges' = EdgesView(cfg.edgeList)
    /\ source' = GraphSource(cfg)
    /\ sink' = GraphSink(cfg)
    /\ visited' = <<>>
    /\ path' = <<>>
    /\ overlong' = FALSE
    /\ cur' = GraphSource(cfg)
    /\ depth' = 1
    /\ attempts' = 0
    /\ pc' = "call"
    /\ idx' = 0
    /\ maxflow' = <<>>
    /\ underscore' = FALSE
    /\ total' = NoOutput
    /\ run' = 0
    /\ first' = NoRun

(* --------------------------- specifications ---------------------------- *)

Next ==
    \/ Enter
    \/ Walk
    \/ Arrive
    \/ DeadEnd
    \/ LoopExit
    \/ Return
    \/ FlowStart
    \/ FlowAugment
    \/ FlowSkip
    \/ FlowCrash
    \/ FlowEnd
    \/ Rerun

\* main() on the sample graph and on the small graphs, flow_network
\* possibly called twice.
Spec == Init /\ [][Next]_vars

\* Two complete computations, one after the other, on identically built
\* small graphs.
NextTwo == Next \/ Restart

SpecTwo == InitSmall /\ [][NextTwo]_vars

\* The program is sequential and never waits: whenever a step is possible
\* it is taken.
FairSpec == InitCycleFree /\ [][Next]_vars /\ WF_vars(Next)

(* ------------------------- notions of the claims ----------------------- *)

\* The node set of the graph.
NodeSet(es) == {es[k].u : k \in 1..Len(es)} \cup {es[k].v : k \in 1..Len(es)}

RECURSIVE FlowSumFrom(_, _, _)
FlowSumFrom(es, K, i) ==
    IF i > Len(es) THEN 0
    ELSE (IF i \in K THEN es[i].flow ELSE 0) + FlowSumFrom(es, K, i + 1)

\* Total flow on the edges entering n, and on the edges leaving n.
Inflow(es, n) == FlowSumFrom(es, {k \in 1..Len(es) : es[k].v = n}, 1)
Outflow(es, n) == FlowSumFrom(es, {k \in 1..Len(es) : es[k].u = n}, 1)

RECURSIVE CapSumFrom(_, _, _)
CapSumFrom(es, K, i) ==
    IF i > Len(es) THEN 0
    ELSE (IF i \in K THEN es[i].capacity ELSE 0) + CapSumFrom(es, K, i + 1)

\* Capacity of the cut (X, rest): the edges leaving X.
CutCapacity(es, X) ==
    CapSumFrom(es, {k \in 1..Len(es) : es[k].u \in X /\ es[k].v \notin X}, 1)

\* Minimum capacity over all cuts separating s from t.
MinCut(es, s, t) ==
    LET caps == {CutCapacity(es, X \cup {s}) :
                    X \in SUBSET (NodeSet(es) \ {s, t})}
    IN  CHOOSE m \in caps : \A c \in caps : m <= c

\* The sink can be reached from the source along edges of the graph.
SinkReachable == sink \in ReachFrom(edges, {source})

\* Source and sink are distinct nodes of the graph.
ValidEndpoints ==
    /\ source \in NodeSet(edges)
    /\ sink \in NodeSet(edges)
    /\ source # sink

AllFlowsZero == \A k \in 1..Len(edges) : edges[k].flow = 0

(* ------------------------------- claims -------------------------------- *)

\* C1: on the sample graph every completed run of path_finder followed by
\* flow_network prints a total flow of exactly 12, whatever edges the walk
\* chose.
C1_SampleTotalIs12 ==
    (cfg = SampleConfig /\ pc = "done") => total = 12

\* A completed run on the sample graph: all seven paths found, 12 printed.
C1_Witness ==
    /\ cfg = SampleConfig
    /\ pc = "done"
    /\ run = 1
    /\ Len(visited) = PathCount
    /\ total = 12

\* C2: in every reachable state, before, during and after flow_network and
\* for every set and order of visited paths, every edge has
\* 0 <= flow <= capacity.
C2_CapacityBound ==
    \A k \in 1..Len(edges) :
        0 <= edges[k].flow /\ edges[k].flow <= edges[k].capacity

\* flow_network has filled an edge to its capacity and still has paths to
\* process.
C2_Witness ==
    /\ pc = "flow"
    /\ idx <= Len(visited)
    /\ \E k \in 1..Len(edges) :
          edges[k].capacity > 0 /\ edges[k].flow = edges[k].capacity

\* C3: after the flow computation has returned, for every node other than
\* the source and the sink the flow on its incoming edges equals the flow on
\* its outgoing edges.
C3_Conservation ==
    pc = "done" =>
        \A n \in NodeSet(edges) \ {source, sink} :
            Inflow(edges, n) = Outflow(edges, n)

\* C4: for every graph with non-negative integer capacities the total flow
\* returned equals the minimum capacity over all cuts separating the source
\* from the sink.
C4_MaxFlowMinCut ==
    (pc = "done" /\ ValidEndpoints) => total = MinCut(edges, source, sink)

\* C5: on every graph with valid endpoints and on every sequence of edge
\* choices the computation eventually reaches its terminal state DONE.
C5_Terminates == ValidEndpoints => <>(pc = "done")

\* C6: two complete runs on identical graphs end with the identical per-edge
\* flow assignment and the identical total flow.
C6_Deterministic ==
    (pc = "done" /\ run = 1 /\ earlier # NoRun) =>
        (edges = earlier.edges /\ total = earlier.total)

\* C7: a second run of the flow computation after it has completed changes
\* the flow of no edge and returns the same total flow as the first run.
C7_Idempotent ==
    (pc = "done" /\ run = 2) =>
        (edges = first.edges /\ total = first.total)

\* C8: on every graph whose sink is not reachable from the source the
\* computation terminates without error, reports total flow 0 and leaves
\* every flow at 0.
C8_ZeroOnDisconnection ==
    (ValidEndpoints /\ ~SinkReachable) =>
        <>(pc = "done" /\ total = 0 /\ AllFlowsZero)

\* C9: a configuration whose source or sink is absent, or whose source
\* equals its sink, is rejected with an error before any search step or flow
\* update; it never completes normally.
C9_BadEndpointsRejected ==
    ~ValidEndpoints => pc \in {"call", "exit"}

\* C10: the update for one path is all-or-nothing: after a path has been
\* processed either every edge on it has had its flow increased by the
\* path's bottleneck, or no edge has changed.
C10_AllOrNothing ==
    [][(pc = "flow" /\ idx' = idx + 1) =>
         LET r == REdges(edges, visited[idx])
             rc == Bottleneck(edges, r, underscore).rc
         IN  \/ edges' = edges
             \/ \A i \in 1..Len(r) :
                   edges'[r[i]].flow = edges[r[i]].flow + rc]_vars

\* The positions in graph.edges of the directed edges (p[i], p[i+1]) of the
\* path p.
PathEdges(es, p) ==
    LET ps == Pairs(p)
    IN  {k \in 1..Len(es) :
            \E i \in 1..Len(ps) : es[k].u = ps[i][1] /\ es[k].v = ps[i][2]}

\* Smallest residual capacity (capacity - flow) over the edges of the path.
MinResidual(es, p) ==
    LET rs == {es[k].capacity - es[k].flow : k \in PathEdges(es, p)}
    IN  CHOOSE m \in rs : \A x \in rs : m <= x

\* The sink can be reached from the source along edges with positive
\* residual capacity.
ResidualPathExists ==
    LET live == SelectSeq(edges, LAMBDA e : e.capacity - e.flow > 0)
    IN  sink \in ReachFrom(live, {source})

\* C11: the bottleneck applied for a path equals the minimum, over the edges
\* of the path, of capacity - flow at the moment the path is processed.
C11_BottleneckIsMinResidual ==
    [][(pc = "flow" /\ Len(maxflow') = Len(maxflow) + 1) =>
         maxflow'[Len(maxflow')] = MinResidual(edges, visited[idx])]_vars

\* C12: in every reachable state the stored residual of every edge equals
\* its capacity minus its flow.
C12_ResidualDerivable ==
    \A k \in 1..Len(edges) :
        edges[k].residual = edges[k].capacity - edges[k].flow

\* flow_network has put flow on an edge that still has room.
C12_Witness ==
    /\ pc \in {"flow", "done"}
    /\ \E k \in 1..Len(edges) :
          /\ edges[k].flow > 0
          /\ edges[k].residual > 0
          /\ edges[k].residual = edges[k].capacity - edges[k].flow

\* C13: the search is complete: it comes back with nothing found only when
\* no source-to-sink path with positive residual capacity exists, whatever
\* edges it chose, walks into a dead end included.
C13_SearchComplete ==
    (pc = "ret" /\ depth = 1 /\ ValidEndpoints /\ visited = <<>>) =>
        ~ResidualPathExists

\* C14: the total flow reported never exceeds the sum of the capacities of
\* the edges leaving the source.
C14_TotalWithinSourceCapacity ==
    (pc = "done" /\ ValidEndpoints) =>
        total <= CutCapacity(edges, {source})

\* C15: the controller alternates search and update: no two flow updates
\* happen without a path search between them.  Every search step is taken
\* before flow_network starts, and maxflow holds one entry per update made
\* by the running call of flow_network, so an update made when maxflow is
\* not empty follows another update with no search step in between.
C15_SearchBetweenUpdates ==
    [][(pc = "flow" /\ Len(maxflow') = Len(maxflow) + 1) =>
         maxflow = <<>>]_vars

\* C16: the path search leaves capacity, flow and residual of every edge
\* unchanged, and the flow update changes no capacity and no edge that is
\* not on the path being processed.
C16_Frame ==
    [][/\ pc \in {"call", "loop", "ret"} => edges' = edges
       /\ pc = "flow" =>
            /\ Len(edges') = Len(edges)
            /\ \A k \in 1..Len(edges) :
                  /\ edges'[k].capacity = edges[k].capacity
                  /\ edges'[k].u = edges[k].u
                  /\ edges'[k].v = edges[k].v
                  /\ (idx <= Len(visited)
                        /\ k \notin PathEdges(edges, visited[idx]))
                     => edges'[k] = edges[k]
                  /\ idx > Len(visited) => edges'[k] = edges[k]]_vars

\* C17: the total reported equals the flow on the edges leaving the source
\* in the final assignment, which equals the flow on the edges entering the
\* sink.
C17_TotalIsSourceOutflow ==
    (pc = "done" /\ run = 1 /\ ValidEndpoints) =>
        /\ total = Outflow(edges, source)
        /\ total = Inflow(edges, sink)

\* C18: visited holds no duplicate, and every entry is a walk that starts at
\* the source, ends at the sink, contains the sink only as its last node and
\* follows a directed edge of the graph at every step.
C18_VisitedAreWalks ==
    /\ \A i, j \in 1..Len(visited) : visited[i] = visited[j] => i = j
    /\ \A i \in 1..Len(visited) :
          LET p == visited[i] IN
          /\ Len(p) >= 2
          /\ p[1] = source
          /\ p[Len(p)] = sink
          /\ \A n \in 1..(Len(p) - 1) :
                /\ p[n] # sink
                /\ \E k \in 1..Len(edges) :
                      edges[k].u = p[n] /\ edges[k].v = p[n + 1]

\* The search is under way with several paths recorded, one of them through
\* a node visited twice.
C18_Witness ==
    /\ pc = "loop"
    /\ Len(visited) >= 2
    /\ \E i \in 1..Len(visited) :
          \E m, n \in 1..Len(visited[i]) :
              m # n /\ visited[i][m] = visited[i][n]

\* C19: the number of edge-selection attempts made by path_finder across one
\* search, over all recursion levels, never exceeds the retry limit of 30.
C19_AttemptsWithinRetry == attempts <= Retry

====
